---- MODULE Spec2Model ----
(***************************************************************************)
(* tryio: tryAsync / tryPromise / trySync (src/src/index.ts) and the       *)
(* default-export tryPromise (src/src/promises/index.ts), run on a         *)
(* single-threaded JavaScript host: synchronous code runs to completion,   *)
(* the continuation of an `await` runs later, once the awaited promise     *)
(* has settled and the call stack is empty.                                *)
(***************************************************************************)
EXTENDS Integers, Sequences, FiniteSets, TLC

\* ------------------------------------------------------------------ bounds
\* Number of distinct Error instances the wrapped operations may raise.
MaxErrors == 1

\* ------------------------------------------------------- JavaScript values
\* A value: t is its kind, proto the prototype of an object ("" otherwise),
\* id the identity of an object (NoId for primitives), name/s the name and
\* message of an Error or the characters of a string, n the number.
\* An identity names who allocated the object and which allocation it was.
ObjId(by, k) == [by |-> by, k |-> k]
NoId == ObjId("", 0)

MkValue(t, proto, id, name, s, n) ==
    [t |-> t, proto |-> proto, id |-> id, name |-> name, s |-> s, n |-> n]

Undefined == MkValue("undefined", "", NoId, "", "", 0)
JSNull == MkValue("null", "", NoId, "", "", 0)
Str(s) == MkValue("string", "", NoId, "", s, 0)
Num(n) == MkValue("number", "", NoId, "", "", n)
\* {} : an ordinary object, inherits Object.prototype.toString
PlainObject(id) == MkValue("object", "Object.prototype", id, "", "", 0)
\* Object.create(null) : an object with no toString / valueOf at all
BareObject(id) == MkValue("object", "null", id, "", "", 0)
\* new Error(message), new TypeError(message), ...
MkError(id, name, message) ==
    MkValue("object", "Error.prototype", id, name, message, 0)

\* error instanceof Error
InstanceOfError(v) == v.t = "object" /\ v.proto = "Error.prototype"

\* An empty slot of a tuple: null or undefined.
IsEmpty(v) == v.t \in {"null", "undefined"}

\* Number::toString for integers.
Digit(d) ==
    CASE d = 0 -> "0" [] d = 1 -> "1" [] d = 2 -> "2" [] d = 3 -> "3"
      [] d = 4 -> "4" [] d = 5 -> "5" [] d = 6 -> "6" [] d = 7 -> "7"
      [] d = 8 -> "8" [] d = 9 -> "9"

RECURSIVE NatToString(_)
NatToString(n) ==
    IF n < 10 THEN Digit(n) ELSE NatToString(n \div 10) \o Digit(n % 10)

NumberToString(n) == IF n < 0 THEN "-" \o NatToString(-n) ELSE NatToString(n)

\* Error.prototype.toString
ErrorToString(v) == IF v.s = "" THEN v.name ELSE v.name \o ": " \o v.s

\* The fault String(x) raises for an object that cannot be converted.
ConversionFault(site) ==
    MkError(ObjId(site, 1), "TypeError",
            "Cannot convert object to primitive value")

\* String(x): [ok |-> TRUE, s |-> the string] or [ok |-> FALSE] when the
\* conversion itself throws.
StringOf(x) ==
    CASE x.t = "undefined" -> [ok |-> TRUE, s |-> "undefined"]
      [] x.t = "null" -> [ok |-> TRUE, s |-> "null"]
      [] x.t = "string" -> [ok |-> TRUE, s |-> x.s]
      [] x.t = "number" -> [ok |-> TRUE, s |-> NumberToString(x.n)]
      [] x.t = "object" /\ x.proto = "Error.prototype" ->
            [ok |-> TRUE, s |-> ErrorToString(x)]
      [] x.t = "object" /\ x.proto = "Object.prototype" ->
            [ok |-> TRUE, s |-> "[object Object]"]
      [] x.t = "object" /\ x.proto = "null" -> [ok |-> FALSE, s |-> ""]

\* new Error(message) evaluated inside wrapper call `site`
NewError(site, message) == MkError(ObjId(site, 0), "Error", message)

\* ------------------------------------------------- completions of a call
NoTuple == << >>
Return(tuple) == [threw |-> FALSE, tuple |-> tuple, fault |-> Undefined]
Throw(fault) == [threw |-> TRUE, tuple |-> NoTuple, fault |-> fault]

\* A slip of the success return: the value lands in the error slot.
SuccessTupleSwapped(result) == <<JSNull, result>>

\* return [result, null];
SuccessTuple(result) == <<result, JSNull>>

\* A slip of the failure return: the error lands in the value slot.
FailureTupleSwapped(err) == <<err, JSNull>>

\* return [null, err];
FailureTuple(err) == <<JSNull, err>>

\* ---------------------------------------------- the four catch clauses
\* src/src/index.ts, tryAsync: catch (error) { ... }
TryAsyncCatch(w, error) ==
    IF InstanceOfError(error)
    THEN Return(FailureTuple(error))
    ELSE IF StringOf(error).ok
         THEN Return(FailureTuple(NewError(w, StringOf(error).s)))
         ELSE Throw(ConversionFault(w))

\* A catch clause without the instanceof test: every fault is re-wrapped.
TryPromiseCatchRewrap(w, error) ==
    IF StringOf(error).ok
    THEN Return(FailureTuple(NewError(w, StringOf(error).s)))
    ELSE Throw(ConversionFault(w))

\* src/src/index.ts, tryPromise: catch (error) { ... }
TryPromiseCatch(w, error) ==
    IF InstanceOfError(error)
    THEN Return(FailureTuple(error))
    ELSE IF StringOf(error).ok
         THEN Return(FailureTuple(NewError(w, StringOf(error).s)))
         ELSE Throw(ConversionFault(w))

\* src/src/index.ts, trySync: catch (error) { ... }
TrySyncCatch(w, error) ==
    IF InstanceOfError(error)
    THEN Return(FailureTuple(error))
    ELSE IF StringOf(error).ok
         THEN Return(FailureTuple(NewError(w, StringOf(error).s)))
         ELSE Throw(ConversionFault(w))

\* A copy of the catch clause that drifted: the raw fault is handed back.
DefaultTryPromiseCatchRaw(w, error) == Return(FailureTuple(error))

\* src/src/promises/index.ts, default export: catch (error) { ... }
DefaultTryPromiseCatch(w, error) ==
    IF InstanceOfError(error)
    THEN Return(FailureTuple(error))
    ELSE IF StringOf(error).ok
         THEN Return(FailureTuple(NewError(w, StringOf(error).s)))
         ELSE Throw(ConversionFault(w))

\* ------------------------------------------------------------- the calls
\* The calls of one run. A, B, C are the fan-out of the README
\*   Promise.all([tryAsync(fnA), tryPromise(pB), tryAsync(fnC)]);
\* D is the default-export tryPromise applied to the same promise pB,
\* S is a trySync call.
AsyncFnCalls == {"A", "C"}
PromiseCalls == {"B"}
DefaultPromiseCalls == {"D"}
SyncCalls == {"S"}
AsyncCalls == AsyncFnCalls \cup PromiseCalls \cup DefaultPromiseCalls
Calls == AsyncCalls \cup SyncCalls
FanOut == <<"A", "B", "C">>

\* The operation each call wraps: fnA, pB, fnC, fnS.
OpOf(w) ==
    CASE w = "A" -> "a" [] w = "B" -> "b" [] w = "C" -> "c"
      [] w = "D" -> "b" [] w = "S" -> "s"
Ops == {"a", "b", "c", "s"}

\* What a wrapped operation may produce.
CallerId(k) == ObjId("caller", k)
ErrorInstances ==
    {MkError(CallerId(k), "Error", "Network error during fetch!") :
        k \in 1..MaxErrors}
SuccessValues == {Undefined, JSNull, Num(42), PlainObject(CallerId(0))}
NonErrorFaults ==
    {Str("Invalid User ID format."), Num(404), JSNull, Undefined,
     PlainObject(CallerId(0)), BareObject(CallerId(0))}
Faults == ErrorInstances \cup NonErrorFaults

VARIABLES
    pc,        \* pc[w]: "idle", "running" (trySync on the stack), "awaiting",
               \*        "fulfilled", "rejected", "returned", "threw"
    op,        \* op[o]: state and value of the wrapped operation
    result,    \* result[w]: the tuple handed to the caller, or NoTuple
    thrown,    \* thrown[w]: the fault handed to the caller when pc[w] is
               \*            "rejected" or "threw"
    invoked,   \* invoked[w]: how often call w invoked a caller-supplied fn
    started,   \* started[o]: how often operation o was started
    running,   \* the call whose synchronous code is on the stack, or "none"
    dashboard  \* the Promise.all over FanOut

vars == <<pc, op, result, thrown, invoked, started, running, dashboard>>

Unstarted == [state |-> "unstarted", val |-> Undefined]
Pending == [state |-> "pending", val |-> Undefined]

Init ==
    /\ pc = [w \in Calls |-> "idle"]
    /\ op = [o \in Ops |-> Unstarted]
    /\ result = [w \in Calls |-> NoTuple]
    /\ thrown = [w \in Calls |-> Undefined]
    /\ invoked = [w \in Calls |-> 0]
    /\ started = [o \in Ops |-> 0]
    /\ running = "none"
    /\ dashboard = [state |-> "pending", results |-> NoTuple, reason |-> Undefined]

\* A job or a continuation starts only on an empty call stack.
StackEmpty == running = "none"

Settled(o) == op[o].state \in {"fulfilled", "rejected"}

\* The tuple kept in one module-level variable that all calls share.
AsyncCompleteShared(w, c) ==
    /\ pc' = [pc EXCEPT ![w] = IF c.threw THEN "rejected" ELSE "fulfilled"]
    /\ result' = [x \in Calls |-> IF x = w \/ result[x] # NoTuple
                                  THEN c.tuple ELSE result[x]]
    /\ thrown' = [thrown EXCEPT ![w] = c.fault]

\* The promise of an async function settles with its completion.
AsyncComplete(w, c) ==
    /\ pc' = [pc EXCEPT ![w] = IF c.threw THEN "rejected" ELSE "fulfilled"]
    /\ result' = [result EXCEPT ![w] = c.tuple]
    /\ thrown' = [thrown EXCEPT ![w] = c.fault]

\* A synchronous function returns or throws its completion.
SyncComplete(w, c) ==
    /\ pc' = [pc EXCEPT ![w] = IF c.threw THEN "threw" ELSE "returned"]
    /\ result' = [result EXCEPT ![w] = c.tuple]
    /\ thrown' = [thrown EXCEPT ![w] = c.fault]

\* await fn() / await promise: the settlement the continuation resumes with
Awaited(w) == op[OpOf(w)]

\* ------------------------------------------- the wrapped operations
\* The caller creates the promise it will hand to tryPromise:
\*   tryPromise(fetchInventoryData())
CreatePromise(o) ==
    /\ StackEmpty
    /\ op[o].state = "unstarted"
    /\ op' = [op EXCEPT ![o] = Pending]
    /\ started' = [started EXCEPT ![o] = @ + 1]
    /\ UNCHANGED <<pc, result, thrown, invoked, running, dashboard>>

\* An asynchronous operation fulfils with a value ...
Fulfil(o) ==
    /\ StackEmpty
    /\ op[o].state = "pending"
    /\ \E v \in SuccessValues :
          op' = [op EXCEPT ![o] = [state |-> "fulfilled", val |-> v]]
    /\ UNCHANGED <<pc, result, thrown, invoked, started, running, dashboard>>

\* ... or rejects with a fault.
Reject(o) ==
    /\ StackEmpty
    /\ op[o].state = "pending"
    /\ \E e \in Faults :
          op' = [op EXCEPT ![o] = [state |-> "rejected", val |-> e]]
    /\ UNCHANGED <<pc, result, thrown, invoked, started, running, dashboard>>

\* ------------------------------------------------------------ tryAsync
\* tryAsync(fn): fn() returns a promise; the call suspends at the await.
TryAsyncCall(w) ==
    /\ StackEmpty
    /\ pc[w] = "idle"
    /\ invoked' = [invoked EXCEPT ![w] = @ + 1]
    /\ started' = [started EXCEPT ![OpOf(w)] = @ + 1]
    /\ op' = [op EXCEPT ![OpOf(w)] = Pending]
    /\ pc' = [pc EXCEPT ![w] = "awaiting"]
    /\ UNCHANGED <<result, thrown, running, dashboard>>

\* tryAsync(fn): fn() throws before it returns a promise; the catch clause
\* runs in the same synchronous step.
TryAsyncCallThrows(w) ==
    /\ StackEmpty
    /\ pc[w] = "idle"
    /\ invoked' = [invoked EXCEPT ![w] = @ + 1]
    /\ started' = [started EXCEPT ![OpOf(w)] = @ + 1]
    /\ \E e \in Faults :
          /\ op' = [op EXCEPT ![OpOf(w)] = [state |-> "threw", val |-> e]]
          /\ AsyncComplete(w, TryAsyncCatch(w, e))
    /\ UNCHANGED <<running, dashboard>>

\* A continuation that retries fn once after a rejection.
TryAsyncResumeRetry(w) ==
    /\ StackEmpty
    /\ pc[w] = "awaiting"
    /\ Awaited(w).state \in {"fulfilled", "rejected"}
    /\ IF Awaited(w).state = "rejected" /\ invoked[w] < 2
       THEN /\ invoked' = [invoked EXCEPT ![w] = @ + 1]
            /\ started' = [started EXCEPT ![OpOf(w)] = @ + 1]
            /\ op' = [op EXCEPT ![OpOf(w)] = Pending]
            /\ UNCHANGED <<pc, result, thrown>>
       ELSE /\ IF Awaited(w).state = "fulfilled"
               THEN AsyncComplete(w, Return(SuccessTuple(Awaited(w).val)))
               ELSE AsyncComplete(w, TryAsyncCatch(w, Awaited(w).val))
            /\ UNCHANGED <<op, invoked, started>>
    /\ UNCHANGED <<running, dashboard>>

\* The continuation of `await fn()`.
TryAsyncResume(w) ==
    /\ StackEmpty
    /\ pc[w] = "awaiting"
    /\ Awaited(w).state \in {"fulfilled", "rejected"}
    /\ IF Awaited(w).state = "fulfilled"
       THEN AsyncComplete(w, Return(SuccessTuple(Awaited(w).val)))
       ELSE AsyncComplete(w, TryAsyncCatch(w, Awaited(w).val))
    /\ UNCHANGED <<op, invoked, started, running, dashboard>>

\* ---------------------------------------------------------- tryPromise
\* tryPromise(promise): the promise exists already; the call suspends.
TryPromiseCall(w) ==
    /\ StackEmpty
    /\ pc[w] = "idle"
    /\ op[OpOf(w)].state # "unstarted"
    /\ pc' = [pc EXCEPT ![w] = "awaiting"]
    /\ UNCHANGED <<op, result, thrown, invoked, started, running, dashboard>>

\* The continuation of `await promise`.
TryPromiseResume(w) ==
    /\ StackEmpty
    /\ pc[w] = "awaiting"
    /\ Awaited(w).state \in {"fulfilled", "rejected"}
    /\ IF Awaited(w).state = "fulfilled"
       THEN AsyncComplete(w, Return(SuccessTuple(Awaited(w).val)))
       ELSE AsyncComplete(w, TryPromiseCatch(w, Awaited(w).val))
    /\ UNCHANGED <<op, invoked, started, running, dashboard>>

\* ------------------------------------ tryPromise, src/promises/index.ts
DefaultTryPromiseCall(w) ==
    /\ StackEmpty
    /\ pc[w] = "idle"
    /\ op[OpOf(w)].state # "unstarted"
    /\ pc' = [pc EXCEPT ![w] = "awaiting"]
    /\ UNCHANGED <<op, result, thrown, invoked, started, running, dashboard>>

DefaultTryPromiseResume(w) ==
    /\ StackEmpty
    /\ pc[w] = "awaiting"
    /\ Awaited(w).state \in {"fulfilled", "rejected"}
    /\ IF Awaited(w).state = "fulfilled"
       THEN AsyncComplete(w, Return(SuccessTuple(Awaited(w).val)))
       ELSE AsyncComplete(w, DefaultTryPromiseCatch(w, Awaited(w).val))
    /\ UNCHANGED <<op, invoked, started, running, dashboard>>

\* ------------------------------------------------------------- trySync
\* A trySync written with `await fn()`: the call stack is released while
\* the call is under way.
TrySyncCallAwaits(w) ==
    /\ StackEmpty
    /\ pc[w] = "idle"
    /\ running' = "none"
    /\ invoked' = [invoked EXCEPT ![w] = @ + 1]
    /\ started' = [started EXCEPT ![OpOf(w)] = @ + 1]
    /\ \/ \E v \in SuccessValues :
             op' = [op EXCEPT ![OpOf(w)] = [state |-> "fulfilled", val |-> v]]
       \/ \E e \in Faults :
             op' = [op EXCEPT ![OpOf(w)] = [state |-> "rejected", val |-> e]]
    /\ pc' = [pc EXCEPT ![w] = "running"]
    /\ UNCHANGED <<result, thrown, dashboard>>

\* trySync(fn): fn() runs on the caller's stack and returns or throws.
TrySyncCall(w) ==
    /\ StackEmpty
    /\ pc[w] = "idle"
    /\ running' = w
    /\ invoked' = [invoked EXCEPT ![w] = @ + 1]
    /\ started' = [started EXCEPT ![OpOf(w)] = @ + 1]
    /\ \/ \E v \in SuccessValues :
             op' = [op EXCEPT ![OpOf(w)] = [state |-> "fulfilled", val |-> v]]
       \/ \E e \in Faults :
             op' = [op EXCEPT ![OpOf(w)] = [state |-> "rejected", val |-> e]]
    /\ pc' = [pc EXCEPT ![w] = "running"]
    /\ UNCHANGED <<result, thrown, dashboard>>

\* trySync hands the tuple (or the fault of its catch clause) to its caller.
TrySyncReturn(w) ==
    /\ pc[w] = "running"
    /\ IF op[OpOf(w)].state = "fulfilled"
       THEN SyncComplete(w, Return(SuccessTuple(op[OpOf(w)].val)))
       ELSE SyncComplete(w, TrySyncCatch(w, op[OpOf(w)].val))
    /\ running' = "none"
    /\ UNCHANGED <<op, invoked, started, dashboard>>

\* ------------------------------------------- README: Using with Promise.all
\* const [salesResult, inventoryResult, analyticsResult] = await Promise.all([...])
PromiseAllFulfil ==
    /\ StackEmpty
    /\ dashboard.state = "pending"
    /\ \A i \in 1..Len(FanOut) : pc[FanOut[i]] = "fulfilled"
    /\ dashboard' = [state |-> "fulfilled",
                     results |-> [i \in 1..Len(FanOut) |-> result[FanOut[i]]],
                     reason |-> Undefined]
    /\ UNCHANGED <<pc, op, result, thrown, invoked, started, running>>

PromiseAllReject ==
    /\ StackEmpty
    /\ dashboard.state = "pending"
    /\ \A i \in 1..Len(FanOut) : pc[FanOut[i]] # "idle"
    /\ \E i \in 1..Len(FanOut) :
          /\ pc[FanOut[i]] = "rejected"
          /\ dashboard' = [state |-> "rejected", results |-> NoTuple,
                           reason |-> thrown[FanOut[i]]]
    /\ UNCHANGED <<pc, op, result, thrown, invoked, started, running>>

\* ------------------------------------------------------ specifications
\* One call of each entry point: tryAsync (A), tryPromise (B), the default
\* export tryPromise on the same promise (D) and trySync (S).
Next ==
    \/ \E o \in {"b"} : CreatePromise(o)
    \/ \E o \in {"a", "b"} : Fulfil(o)
    \/ \E o \in {"a", "b"} : Reject(o)
    \/ \E w \in {"A"} : TryAsyncCall(w)
    \/ \E w \in {"A"} : TryAsyncCallThrows(w)
    \/ \E w \in {"A"} : TryAsyncResume(w)
    \/ \E w \in PromiseCalls : TryPromiseCall(w)
    \/ \E w \in PromiseCalls : TryPromiseResume(w)
    \/ \E w \in DefaultPromiseCalls : DefaultTryPromiseCall(w)
    \/ \E w \in DefaultPromiseCalls : DefaultTryPromiseResume(w)
    \/ \E w \in SyncCalls : TrySyncCall(w)
    \/ \E w \in SyncCalls : TrySyncReturn(w)

Spec == Init /\ [][Next]_vars

\* The continuations and returns the host is bound to run: a continuation
\* whose promise has settled is run, a synchronous call returns.
Fairness ==
    /\ WF_vars(TryAsyncResume("A"))
    /\ WF_vars(TryPromiseResume("B"))
    /\ WF_vars(DefaultTryPromiseResume("D"))
    /\ WF_vars(TrySyncReturn("S"))

FairSpec == Spec /\ Fairness

\* The fan-out of the README: tryAsync(fnA), tryPromise(pB), tryAsync(fnC)
\* under one Promise.all.
NextFanOut ==
    \/ \E o \in {"b"} : CreatePromise(o)
    \/ \E o \in {"a", "b", "c"} : Fulfil(o)
    \/ \E o \in {"a", "b", "c"} : Reject(o)
    \/ \E w \in AsyncFnCalls : TryAsyncCall(w)
    \/ \E w \in AsyncFnCalls : TryAsyncCallThrows(w)
    \/ \E w \in AsyncFnCalls : TryAsyncResume(w)
    \/ \E w \in PromiseCalls : TryPromiseCall(w)
    \/ \E w \in PromiseCalls : TryPromiseResume(w)
    \/ PromiseAllFulfil
    \/ PromiseAllReject

SpecFanOut == Init /\ [][NextFanOut]_vars

\* --------------------------------------------------------- properties
Done(w) == pc[w] \in {"fulfilled", "rejected", "returned", "threw"}
Succeeded(w) == op[OpOf(w)].state = "fulfilled"
Failed(w) == op[OpOf(w)].state \in {"rejected", "threw"}
Outcome(w) == op[OpOf(w)].val
Populated(v) == ~IsEmpty(v)

\* C1: no wrapper ever hands a fault of the wrapped operation to its
\* caller: trySync never throws and the promise of tryAsync / tryPromise
\* never rejects, whatever the operation raised.
C1_NoFaultPropagates ==
    \A w \in Calls : pc[w] \notin {"rejected", "threw"}

\* C2 as stated: every returned tuple has exactly one populated slot, also
\* when the operation succeeds with null or undefined.
C2_ExactlyOneSlot ==
    \A w \in Calls :
        result[w] # NoTuple =>
            (Populated(result[w][1]) /\ IsEmpty(result[w][2]))
            \/ (IsEmpty(result[w][1]) /\ Populated(result[w][2]))

\* C2 amended: in every returned tuple the error slot is populated exactly
\* when the operation failed, and then the value slot is null; both slots
\* are never populated together; both slots are empty exactly when the
\* operation succeeded with an empty value (null or undefined).
C2_SlotsAmended ==
    \A w \in Calls :
        result[w] # NoTuple =>
            /\ Populated(result[w][2]) <=> Failed(w)
            /\ Populated(result[w][2]) => result[w][1] = JSNull
            /\ ~(Populated(result[w][1]) /\ Populated(result[w][2]))
            /\ (IsEmpty(result[w][1]) /\ IsEmpty(result[w][2]))
                  <=> (Succeeded(w) /\ IsEmpty(Outcome(w)))

C2_Witness ==
    /\ \E w \in Calls :
          result[w] # NoTuple /\ IsEmpty(result[w][1]) /\ IsEmpty(result[w][2])
    /\ \E w \in Calls :
          result[w] # NoTuple /\ Populated(result[w][2])
    /\ \E w \in Calls :
          result[w] # NoTuple /\ Populated(result[w][1])

\* C3: when the operation succeeds with v, each wrapper hands back (v, null),
\* v unchanged.
C3_SuccessPassThrough ==
    \A w \in Calls :
        (Done(w) /\ Succeeded(w)) =>
            /\ pc[w] \in {"fulfilled", "returned"}
            /\ result[w] = <<Outcome(w), JSNull>>

C3_Witness ==
    /\ pc["A"] = "fulfilled" /\ Succeeded("A") /\ Outcome("A") = Num(42)
    /\ pc["B"] = "fulfilled" /\ Succeeded("B")
    /\ pc["S"] = "returned" /\ Succeeded("S") /\ Outcome("S").t = "object"

\* C4: when the operation fails with an Error instance e, each wrapper hands
\* back (null, e) with the very same instance e in the error slot.
C4_ErrorIdentityPreserved ==
    \A w \in Calls :
        (Done(w) /\ Failed(w) /\ InstanceOfError(Outcome(w))) =>
            /\ pc[w] \in {"fulfilled", "returned"}
            /\ result[w] = <<JSNull, Outcome(w)>>
            /\ result[w][2].id = Outcome(w).id

C4_Witness ==
    \A w \in {"A", "B", "D", "S"} :
        Done(w) /\ Failed(w) /\ InstanceOfError(Outcome(w))

\* C5: when the operation fails with a fault x that is not an Error instance
\* (a string, a number, a structured value, null, undefined), each wrapper
\* hands back (null, E), E a newly constructed Error whose message is the
\* string form of x.
C5_NonErrorWrapped ==
    \A w \in Calls :
        (Done(w) /\ Failed(w) /\ ~InstanceOfError(Outcome(w))) =>
            /\ result[w] # NoTuple
            /\ result[w][1] = JSNull
            /\ InstanceOfError(result[w][2])
            /\ result[w][2].id.by = w
            /\ StringOf(Outcome(w)).ok
            /\ result[w][2].s = StringOf(Outcome(w)).s

\* The tuple a call produces from its own operation alone.
OwnTuple(w) ==
    IF Succeeded(w) THEN <<Outcome(w), JSNull>>
    ELSE IF InstanceOfError(Outcome(w)) THEN <<JSNull, Outcome(w)>>
    ELSE <<JSNull, MkError(ObjId(w, 0), "Error", StringOf(Outcome(w)).s)>>

\* C6: in the fan-out Promise.all([tryAsync(fnA), tryPromise(pB),
\* tryAsync(fnC)]), whatever the outcomes and the order of settlement, each
\* tuple is the one its own operation determines; nothing of one operation
\* shows up in the tuple of another.
C6_FanOutIndependent ==
    /\ \A i \in 1..Len(FanOut) :
          pc[FanOut[i]] = "fulfilled" => result[FanOut[i]] = OwnTuple(FanOut[i])
    /\ dashboard.state = "fulfilled" =>
          \A i \in 1..Len(FanOut) : dashboard.results[i] = OwnTuple(FanOut[i])

C6_Witness ==
    /\ dashboard.state = "fulfilled"
    /\ op["a"].state = "rejected" /\ Outcome("A") = Num(404)
    /\ op["b"].state = "fulfilled" /\ Outcome("B") = Num(42)
    /\ op["c"].state = "threw" /\ InstanceOfError(Outcome("C"))

\* C7: tryAsync(fn) and trySync(fn) invoke fn exactly once, on success and
\* on failure alike; tryPromise(p) invokes nothing and does not start or
\* restart the computation behind p.
C7_InvokedExactlyOnce ==
    /\ \A w \in AsyncFnCalls \cup SyncCalls :
          /\ invoked[w] = (IF pc[w] = "idle" THEN 0 ELSE 1)
          /\ started[OpOf(w)] = invoked[w]
    /\ \A w \in PromiseCalls \cup DefaultPromiseCalls :
          /\ invoked[w] = 0
          /\ started[OpOf(w)] <= 1
          /\ pc[w] # "idle" => started[OpOf(w)] = 1

C7_Witness ==
    /\ pc["A"] = "fulfilled" /\ Failed("A")
    /\ pc["S"] = "returned" /\ Failed("S")
    /\ pc["B"] = "fulfilled" /\ pc["D"] = "fulfilled" /\ Failed("B")

\* C8: the promise of tryAsync / tryPromise is fulfilled only after the
\* underlying computation has settled, and whenever that computation
\* settles the wrapper's promise eventually fulfils with the tuple mapped
\* from the settlement.
C8_FulfilsAfterSettlement ==
    /\ [](\A w \in AsyncCalls :
            pc[w] = "fulfilled" => op[OpOf(w)].state # "pending")
    /\ \A w \in {"A", "B", "D"} :
          (pc[w] = "awaiting" /\ Settled(OpOf(w)))
              ~> (pc[w] = "fulfilled" /\ result[w] = OwnTuple(w))

\* Two completions agree: both throw, or both return the same tuple, Error
\* objects the wrappers construct themselves compared by name and message.
Anonymous(v) == IF v.id.by \in Calls THEN [v EXCEPT !.id = NoId] ELSE v
SameCompletion(w1, w2) ==
    /\ pc[w1] \in {"rejected", "threw"} <=> pc[w2] \in {"rejected", "threw"}
    /\ Len(result[w1]) = Len(result[w2])
    /\ \A i \in 1..Len(result[w1]) :
          Anonymous(result[w1][i]) = Anonymous(result[w2][i])
    /\ Anonymous(thrown[w1]) = Anonymous(thrown[w2])

\* C9: the normalization is the same function of the fault in tryAsync,
\* tryPromise, trySync and the default-export tryPromise; the two tryPromise
\* functions produce equal tuples for every outcome of the promise.
C9_SameNormalization ==
    /\ \A w1, w2 \in Calls :
          (Done(w1) /\ Done(w2) /\ Failed(w1) /\ Failed(w2)
             /\ Outcome(w1) = Outcome(w2)) => SameCompletion(w1, w2)
    /\ (Done("B") /\ Done("D")) => SameCompletion("B", "D")

C9_Witness ==
    /\ \A w \in {"A", "B", "D", "S"} :
          Done(w) /\ Failed(w) /\ Outcome(w) = Str("Invalid User ID format.")
    /\ result["D"] # NoTuple /\ result["D"][2].id # result["B"][2].id

\* C10: trySync never suspends: from the call of trySync until its caller
\* has the tuple, no other call, continuation or settlement takes a step,
\* and the tuple is handed back directly, never through a promise.
C10_TrySyncNeverSuspends ==
    [][pc["S"] = "running" =>
          /\ pc'["S"] \in {"returned", "threw"}
          /\ \A w \in Calls \ {"S"} :
                pc'[w] = pc[w] /\ result'[w] = result[w]
          /\ \A o \in Ops \ {"s"} : op'[o] = op[o]]_vars

C10_Witness ==
    /\ pc["S"] = "running"
    /\ pc["B"] = "awaiting" /\ Settled("b")
    /\ pc["A"] = "awaiting" /\ op["a"].state = "pending"

====
